---- MODULE Spec2Model ----
(***************************************************************************)
(* A model of dmi_reader.py: the per-platform DMI probes, the container    *)
(* detector, the fallback identifier source, the process-wide cache with   *)
(* its double-checked lock, and the public accessor get_dmi_info.          *)
(*                                                                         *)
(* Text is a sequence of one-character strings, so that str.strip(), the   *)
(* sentinel comparisons and the substring tests are computed, not assumed. *)
(* Python's None is the value None below; an identifier map is a function  *)
(* from a subset of the keys to text.                                      *)
(***************************************************************************)
EXTENDS Integers, Sequences, FiniteSets, TLC

\* ------------------------------------------------------------------ bounds
NThreads == 2      \* threads of the calling process
MaxCalls == 2      \* calls of get_dmi_info made in the life of the process
MaxPad == 1        \* whitespace characters around a value read from a source

Threads == 1..NThreads

\* -------------------------------------------------------------------- text
Whitespace == {" ", "\n", "\t"}

StrEmpty == << >>
StrNone == <<"N", "o", "n", "e">>
StrOEM == <<"T", "o", " ", "b", "e", " ", "f", "i", "l", "l", "e", "d", " ", "b", "y", " ", "O", ".", "E", ".", "M", ".">>
StrSerial == <<"S", "N", "1">>
StrUnavailable == <<"u", "n", "a", "v", "a", "i", "l", "a", "b", "l", "e">>
StrLocalhost == <<"l", "o", "c", "a", "l", "h", "o", "s", "t">>
StrHost == <<"w", "-", "7">>

\* An identifier map is a function from a subset of the keys to text.
EmptyMap == [k \in {} |-> StrEmpty]

\* Optional[Dict[str, str]]: Python's None or a dict; Unset is the value of a
\* history variable before the event it records.
None == [tag |-> "none", map |-> EmptyMap]
Unset == [tag |-> "unset", map |-> EmptyMap]
Dict(m) == [tag |-> "dict", map |-> m]

\* The outcome of Path.read_text(): the text, or OSError / UnicodeDecodeError.
ReadOk(s) == [ok |-> TRUE, text |-> s]
Unreadable == [ok |-> FALSE, text |-> StrEmpty]

\* What getattr(obj, name, None) yields: None, a str, or a value of another type
\* (whose .strip() raises AttributeError).
AttrNone == [kind |-> "none", text |-> StrEmpty]
AttrStr(s) == [kind |-> "str", text |-> s]
AttrOther == [kind |-> "other", text |-> StrEmpty]

RECURSIVE LStrip(_)
LStrip(s) == IF s # << >> /\ Head(s) \in Whitespace THEN LStrip(Tail(s)) ELSE s

RECURSIVE RStrip(_)
RStrip(s) ==
    IF s # << >> /\ s[Len(s)] \in Whitespace THEN RStrip(SubSeq(s, 1, Len(s) - 1)) ELSE s

\* str.strip()
Strip(s) == RStrip(LStrip(s))

\* sub in s
Contains(s, sub) ==
    \E i \in 1..(Len(s) - Len(sub) + 1) : SubSeq(s, i, i + Len(sub) - 1) = sub

\* Python truthiness of a str
Truthy(s) == s # StrEmpty

\* m with key k set to v
Put(m, k, v) == [x \in DOMAIN m \cup {k} |-> IF x = k THEN v ELSE m[x]]

\* "m or None" for a dict m
OrNone(m) == IF DOMAIN m = {} THEN None ELSE Dict(m)

RECURSIVE Spaces(_)
Spaces(n) == IF n = 0 THEN << >> ELSE <<" ">> \o Spaces(n - 1)

RECURSIVE Newlines(_)
Newlines(n) == IF n = 0 THEN << >> ELSE <<"\n">> \o Newlines(n - 1)

\* What a source can hold for a core value: the value with whitespace around it.
Padded(core) == {Spaces(a) \o core \o Newlines(b) : a \in 0..MaxPad, b \in 0..MaxPad}

\* The line "value not in ("", "None", "To be filled by O.E.M.")" of lines 52, 82, 86.
SentinelTuple == {StrEmpty, StrNone, StrOEM}

\* ------------------------------------------------------- container detector
StrDocker == <<"d", "o", "c", "k", "e", "r">>
StrContainerd == <<"c", "o", "n", "t", "a", "i", "n", "e", "r", "d">>
StrKubepods == <<"k", "u", "b", "e", "p", "o", "d", "s">>
StrLxc == <<"l", "x", "c">>
StrPodman == <<"p", "o", "d", "m", "a", "n">>
RuntimeMarkers == {StrDocker, StrContainerd, StrKubepods, StrLxc, StrPodman}

\* Mutant of is_container: /proc/self/cgroup is read first, and a failure to read
\* it ends the detection with False.
is_container_cgroup_first(dockerenv, containerenv, cgroup) ==
    IF ~cgroup.ok THEN FALSE
    ELSE IF dockerenv THEN TRUE
    ELSE IF containerenv THEN TRUE
    ELSE \E x \in RuntimeMarkers : Contains(cgroup.text, x)

\* _is_container(), from whether the two marker files exist and from the outcome
\* of reading /proc/self/cgroup.
is_container(dockerenv, containerenv, cgroup) ==
    IF dockerenv THEN TRUE
    ELSE IF containerenv THEN TRUE
    ELSE IF cgroup.ok /\ \E x \in RuntimeMarkers : Contains(cgroup.text, x) THEN TRUE
    ELSE FALSE

\* Contents of /proc/self/cgroup: a host, a runtime per marker, a near miss.
CgroupTexts ==
    {<<"0", ":", ":", "/">>, <<"0", ":", ":", "/", "d", "o", "c", "k">>}
        \cup {<<"0", ":", ":", "/">> \o x \o <<"/", "a", "\n">> : x \in RuntimeMarkers}
CgroupReads == {ReadOk(c) : c \in CgroupTexts} \cup {Unreadable}

\* ------------------------------------------------------------- Linux probe
\* The dict "fields" of lines 40-46, in its iteration order: <<key, filename>>.
fields ==
    << <<"system_uuid", "product_uuid">>, <<"board_serial", "board_serial">>,
       <<"chassis_serial", "chassis_serial">>, <<"product_name", "product_name">>,
       <<"manufacturer", "sys_vendor">> >>

\* The test of lines 52, 82 and 86 on a stripped value.
KeepValue(value) == Truthy(value) /\ value \notin SentinelTuple

\* Mutant of ReadField: a file that cannot be read discards the fields gathered
\* so far.
ReadFieldAbortOnError(result, key, read) ==
    IF ~read.ok THEN EmptyMap
    ELSE IF KeepValue(Strip(read.text)) THEN Put(result, key, Strip(read.text))
    ELSE result

\* One iteration of the loop of lines 49-56: result after reading the file of key.
ReadField(result, key, read) ==
    IF read.ok /\ KeepValue(Strip(read.text))
    THEN Put(result, key, Strip(read.text))
    ELSE result

\* What a DMI file, /etc/machine-id or a WMI attribute can hold.
ValueCores == {StrEmpty, StrNone, StrOEM, StrSerial}
FileTexts == UNION {Padded(c) : c \in ValueCores}
FileReads == {ReadOk(s) : s \in FileTexts} \cup {Unreadable}

\* The loop of lines 49-56 from position i of fields, files giving the outcome of
\* reading each file of /sys/class/dmi/id.
RECURSIVE ReadFields(_, _, _)
ReadFields(result, i, files) ==
    IF i > Len(fields) THEN result
    ELSE ReadFields(ReadField(result, fields[i][1], files[fields[i][2]]), i + 1, files)

\* The file names the loop of lines 49-56 reads, in order.
DmiFilenames == [i \in 1..Len(fields) |-> fields[i][2]]

\* Mutant of read_dmi_linux: the verdict of _is_container() is not consulted.
read_dmi_linux_any_host(host) ==
    IF ~host.is_dir THEN [ret |-> None, opened |-> << >>]
    ELSE [ret |-> OrNone(ReadFields(EmptyMap, 1, host.files)), opened |-> DmiFilenames]

\* _read_dmi_linux() on a host: the value returned and the DMI files it read.
read_dmi_linux(host) ==
    IF is_container(host.dockerenv, host.containerenv, host.cgroup)
    THEN [ret |-> None, opened |-> << >>]
    ELSE IF ~host.is_dir THEN [ret |-> None, opened |-> << >>]
    ELSE [ret |-> OrNone(ReadFields(EmptyMap, 1, host.files)), opened |-> DmiFilenames]

\* Hosts _read_dmi_linux is applied to: each DMI file is unreadable or holds a
\* core value with the most whitespace around it.
DmiReads == {ReadOk(Spaces(MaxPad) \o c \o Newlines(MaxPad)) : c \in ValueCores} \cup {Unreadable}
LinuxCgroupReads ==
    {ReadOk(<<"0", ":", ":", "/">>), ReadOk(<<"0", ":", ":", "/">> \o StrKubepods \o <<"/", "a", "\n">>)}
LinuxHosts ==
    [fn : {"read_dmi_linux"}, dockerenv : BOOLEAN, containerenv : BOOLEAN,
     cgroup : LinuxCgroupReads, is_dir : BOOLEAN,
     files : [{DmiFilenames[i] : i \in 1..Len(fields)} -> DmiReads]]

\* Hosts _is_container is applied to.
ContainerHosts ==
    [fn : {"is_container"}, dockerenv : BOOLEAN, containerenv : BOOLEAN, cgroup : CgroupReads]

\* ----------------------------------------------------------- Windows worker
\* Lines 78-79: the UUID is stored stripped, with no test of the stripped value.
ExtractUuid(result, attr) ==
    IF attr.kind = "str" /\ Truthy(attr.text)
    THEN Put(result, "system_uuid", Strip(attr.text))
    ELSE result

\* Lines 80-83 (key chassis_serial) and 84-87 (key bios_serial).
ExtractSerial(result, key, attr) ==
    IF attr.kind = "str" /\ Truthy(attr.text) /\ KeepValue(Strip(attr.text))
    THEN Put(result, key, Strip(attr.text))
    ELSE result

\* getattr(...) is truthy and has no .strip(): AttributeError.
ExtractRaises(attr) == attr.kind = "other"

Attrs == {AttrNone, AttrOther} \cup {AttrStr(s) : s \in FileTexts}

\* -------------------------------------------------------------- macOS probe
\* The outcome of subprocess.run(...) of lines 123-129.
\*   oserror: the command cannot be started (FileNotFoundError, an OSError)
\*   timeout: subprocess.TimeoutExpired after 3 seconds (not an OSError)
\*   undecodable: text=True cannot decode stdout (UnicodeDecodeError)
\*   done: the command ended with returncode rc and stdout
\* stdout is "" (empty), text that is not JSON (badjson), or JSON text whose value
\* is a non-dict (scalar), or a dict whose key SPHardwareDataType is hw:
\*   absent, a non-list (scalar), [] (empty), [non-dict] (item_scalar), or
\*   [{...}] (item_dict) with platform_UUID uuid.
MacRun(kind, rc, stdout, hw, uuid) ==
    [kind |-> kind, rc |-> rc, stdout |-> stdout, hw |-> hw, uuid |-> uuid]

MacRuns ==
    {MacRun(k, 0, "empty", "absent", AttrNone) : k \in {"oserror", "timeout", "undecodable"}}
        \cup {MacRun("done", 1, so, "absent", AttrNone) : so \in {"empty", "badjson"}}
        \cup {MacRun("done", 0, so, "absent", AttrNone) : so \in {"empty", "badjson", "scalar"}}
        \cup {MacRun("done", 0, "dict", hw, AttrNone) :
                hw \in {"absent", "scalar", "empty", "item_scalar"}}
        \cup {MacRun("done", 0, "dict", "item_dict", u) :
                u \in {AttrNone} \cup {AttrStr(s) : s \in FileTexts}}

\* Whether _read_dmi_macos() ends with an exception: only json.JSONDecodeError,
\* AttributeError and OSError are caught (line 147).
MacRaises(run) == run.kind \in {"timeout", "undecodable"}

\* The value _read_dmi_macos() returns when it returns.
read_dmi_macos(run) ==
    IF run.kind = "oserror" THEN None
    ELSE IF run.rc # 0 THEN None
    ELSE IF run.stdout = "empty" THEN None
    ELSE IF run.stdout = "badjson" THEN None
    ELSE IF run.stdout = "scalar" THEN None
    ELSE IF run.hw \in {"absent", "empty", "scalar"} THEN None
    ELSE IF run.hw = "item_scalar" THEN None
    ELSE IF run.uuid.kind = "str" /\ Truthy(run.uuid.text)
         THEN Dict(Put(EmptyMap, "system_uuid", run.uuid.text))
    ELSE None

\* ---------------------------------------------------------- fallback source
\* _get_fallback_identifiers(), from the outcome of reading /etc/machine-id and
\* from platform.node().
MachineId(fallbacks, read) ==
    IF read.ok /\ Truthy(Strip(read.text)) /\ Strip(read.text) # StrUnavailable
    THEN Put(fallbacks, "machine_id", Strip(read.text))
    ELSE fallbacks

\* Mutant of Hostname: the hostname is used only when there is no machine id.
HostnameUnlessMachineId(fallbacks, hostname) ==
    IF fallbacks = EmptyMap /\ Truthy(hostname) /\ hostname \notin {StrLocalhost, StrEmpty, StrNone}
    THEN Put(fallbacks, "hostname", hostname)
    ELSE fallbacks

Hostname(fallbacks, hostname) ==
    IF Truthy(hostname) /\ hostname \notin {StrLocalhost, StrEmpty, StrNone}
    THEN Put(fallbacks, "hostname", hostname)
    ELSE fallbacks

get_fallback_identifiers(read, hostname) == Hostname(MachineId(EmptyMap, read), hostname)

MachineIdReads ==
    {ReadOk(s) : s \in UNION {Padded(c) : c \in {StrEmpty, StrUnavailable, StrSerial}}}
        \cup {Unreadable}
Hostnames == {StrEmpty, StrNone, StrLocalhost, StrHost}

\* Hosts _get_fallback_identifiers is applied to.
FallbackHosts ==
    [fn : {"get_fallback_identifiers"}, machine_id : MachineIdReads, hostname : Hostnames]

\* --------------------------------------------------------- public accessor
\* Lines 205-210 of get_dmi_info, given the cached value and, when the fallback
\* source is consulted, its map.
UsesFallback(dmi_data, include_fallback) == dmi_data = None /\ include_fallback

\* Mutant of get_dmi_info: line 209 without "or None".
get_dmi_info_no_or_none(dmi_data, include_fallback, fallback) ==
    IF dmi_data # None THEN dmi_data
    ELSE IF include_fallback THEN Dict(fallback)
    ELSE None

get_dmi_info(dmi_data, include_fallback, fallback) ==
    IF dmi_data # None THEN dmi_data
    ELSE IF include_fallback THEN OrNone(fallback)
    ELSE None

\* ------------------------------------------------------------------- state
VARIABLES
    platform,           \* sys.platform of the process
    dmi_cache,          \* _dmi_cache (line 171)
    cache_initialized,  \* _cache_initialized (line 172)
    cache_lock,         \* _cache_lock (line 173): the thread holding it, 0 when free
    pc,                 \* per thread: the line it is about to execute, or "idle"
    calls,              \* calls of get_dmi_info started so far
    include_fallback,   \* per thread: the argument of the current call
    raw,                \* per thread: the value _get_raw_dmi() returned (line 180)
    dmi_data,           \* per thread: dmi_data of get_dmi_info (line 204)
    fallback,           \* per thread: fallback of get_dmi_info (line 208)
    retval,             \* per thread: the value get_dmi_info is returning
    result,             \* per thread: result of _read_dmi_linux (line 48)
    idx,                \* per thread: position of the loop of line 49 in fields
    wpc,                \* per probing thread: the line its worker process is at
    wres,               \* per probing thread: result of _wmi_worker (line 76)
    queue,              \* per probing thread: messages on the multiprocessing.Queue
    qclosed,            \* per probing thread: queue.close() was called
    sigterm,            \* per probing thread: process.terminate() was called
    sigkill,            \* per probing thread: process.kill() was called
    spawned,            \* per probing thread: workers started by this invocation
    nProbes,            \* history: invocations of _get_raw_dmi in the process
    probeOut,           \* history: the value the last returning _get_raw_dmi returned
    ret,                \* history: per include_fallback, the last value returned
    escaped,            \* history: an exception has left get_dmi_info
    input,              \* the host a function is applied to on its own
    output              \* that function's last application: its host and value

cacheVars == <<dmi_cache, cache_initialized, cache_lock>>
callVars == <<calls, include_fallback, dmi_data, fallback, retval>>
linuxVars == <<result, idx>>
procVars == <<wpc, wres, queue>>
winVars == <<wpc, wres, queue, qclosed, sigterm, sigkill, spawned>>
histVars == <<nProbes, probeOut, ret, escaped>>
vars ==
    <<platform, dmi_cache, cache_initialized, cache_lock, pc, calls, include_fallback,
      raw, dmi_data, fallback, retval, result, idx, wpc, wres, queue, qclosed,
      sigterm, sigkill, spawned, nProbes, probeOut, ret, escaped, input, output>>

\* What no step of the process changes.
staticVars == <<platform, input, output>>

Platforms == {"linux", "win32", "darwin", "other"}

\* No function is applied on its own in the process.
NoInput == [fn |-> "none"]

InitProcess ==
    /\ dmi_cache = None
    /\ cache_initialized = FALSE
    /\ cache_lock = 0
    /\ pc = [t \in Threads |-> "idle"]
    /\ calls = 0
    /\ include_fallback = [t \in Threads |-> FALSE]
    /\ raw = [t \in Threads |-> Unset]
    /\ dmi_data = [t \in Threads |-> Unset]
    /\ fallback = [t \in Threads |-> Unset]
    /\ retval = [t \in Threads |-> Unset]
    /\ result = [t \in Threads |-> EmptyMap]
    /\ idx = [t \in Threads |-> 1]
    /\ wpc = [t \in Threads |-> "none"]
    /\ wres = [t \in Threads |-> EmptyMap]
    /\ queue = [t \in Threads |-> << >>]
    /\ qclosed = [t \in Threads |-> FALSE]
    /\ sigterm = [t \in Threads |-> FALSE]
    /\ sigkill = [t \in Threads |-> FALSE]
    /\ spawned = [t \in Threads |-> 0]
    /\ nProbes = 0
    /\ probeOut = Unset
    /\ ret = [f \in BOOLEAN |-> Unset]
    /\ escaped = FALSE

Init ==
    /\ platform \in Platforms
    /\ InitProcess
    /\ input = NoInput
    /\ output = Unset

Goto(t, line) == pc' = [pc EXCEPT ![t] = line]

\* ------------------------------------------- get_dmi_info, _get_cached_dmi
\* A thread calls get_dmi_info(include_fallback) (line 199, then 204 and 175).
Call(t) ==
    /\ pc[t] = "idle"
    /\ calls < MaxCalls
    /\ calls' = calls + 1
    /\ \E f \in BOOLEAN : include_fallback' = [include_fallback EXCEPT ![t] = f]
    /\ Goto(t, "l177")
    /\ UNCHANGED <<staticVars, cacheVars, raw, dmi_data, fallback, retval, linuxVars,
                   winVars, histVars>>

\* Line 177: the unlocked test of _cache_initialized.
FastCheck(t) ==
    /\ pc[t] = "l177"
    /\ Goto(t, IF ~cache_initialized THEN "l178" ELSE "l182")
    /\ UNCHANGED <<staticVars, cacheVars, callVars, raw, linuxVars, winVars, histVars>>

\* Mutant of Acquire: the lock does not exclude a second holder.
AcquireNoWait(t) ==
    /\ pc[t] = "l178"
    /\ cache_lock' = t
    /\ Goto(t, "l179")
    /\ UNCHANGED <<staticVars, dmi_cache, cache_initialized, callVars, raw, linuxVars,
                   winVars, histVars>>

\* Line 178: with _cache_lock, entry.
Acquire(t) ==
    /\ pc[t] = "l178"
    /\ cache_lock = 0
    /\ cache_lock' = t
    /\ Goto(t, "l179")
    /\ UNCHANGED <<staticVars, dmi_cache, cache_initialized, callVars, raw, linuxVars,
                   winVars, histVars>>

\* Mutant of DoubleCheck: the test under the lock is missing.
DoubleCheckMissing(t) ==
    /\ pc[t] = "l179"
    /\ Goto(t, "l180")
    /\ UNCHANGED <<staticVars, cacheVars, callVars, raw, linuxVars, winVars, histVars>>

\* Line 179: the test repeated under the lock.
DoubleCheck(t) ==
    /\ pc[t] = "l179"
    /\ Goto(t, IF ~cache_initialized THEN "l180" ELSE "l178x")
    /\ UNCHANGED <<staticVars, cacheVars, callVars, raw, linuxVars, winVars, histVars>>

\* _get_raw_dmi() returns v to line 180.
ProbeReturns(t, v) ==
    /\ raw' = [raw EXCEPT ![t] = v]
    /\ probeOut' = v
    /\ Goto(t, "l180s")

\* _get_raw_dmi() ends with an exception, which leaves the with block.
ProbeRaises(t) ==
    /\ Goto(t, "l178r")
    /\ UNCHANGED <<raw, probeOut>>

\* Lines 180 and 184-197: _get_raw_dmi() is called and dispatches on sys.platform.
GetRawDmi(t) ==
    /\ pc[t] = "l180"
    /\ nProbes' = nProbes + 1
    /\ spawned' = [spawned EXCEPT ![t] = 0]
    /\ IF platform = "linux" THEN Goto(t, "l33") /\ UNCHANGED <<raw, probeOut>>
       ELSE IF platform = "win32" THEN Goto(t, "l98") /\ UNCHANGED <<raw, probeOut>>
       ELSE IF platform = "darwin" THEN Goto(t, "l121") /\ UNCHANGED <<raw, probeOut>>
       ELSE ProbeReturns(t, None)
    /\ UNCHANGED <<staticVars, cacheVars, callVars, linuxVars, procVars, qclosed, sigterm,
                   sigkill, ret, escaped>>

\* Mutant of PopulateWrite: the flag is set before the value is stored.
PopulateWriteFlagFirst(t, step) ==
    IF step = 1
    THEN cache_initialized' = TRUE /\ UNCHANGED dmi_cache
    ELSE dmi_cache' = raw[t] /\ UNCHANGED cache_initialized

\* The two assignments of lines 180 and 181, in the order the code makes them.
PopulateWrite(t, step) ==
    IF step = 1
    THEN dmi_cache' = raw[t] /\ UNCHANGED cache_initialized
    ELSE cache_initialized' = TRUE /\ UNCHANGED dmi_cache

\* The probe has returned or raised: the process and queue objects of
\* _read_dmi_windows_with_timeout are out of scope.
DropProbeLocals(t) ==
    /\ wpc' = [wpc EXCEPT ![t] = "none"]
    /\ wres' = [wres EXCEPT ![t] = EmptyMap]
    /\ queue' = [queue EXCEPT ![t] = << >>]
    /\ qclosed' = [qclosed EXCEPT ![t] = FALSE]
    /\ sigterm' = [sigterm EXCEPT ![t] = FALSE]
    /\ sigkill' = [sigkill EXCEPT ![t] = FALSE]
    /\ spawned' = [spawned EXCEPT ![t] = 0]

\* Line 180: the assignment to _dmi_cache.
StoreCache(t) ==
    /\ pc[t] = "l180s"
    /\ PopulateWrite(t, 1)
    /\ DropProbeLocals(t)
    /\ Goto(t, "l181")
    /\ UNCHANGED <<staticVars, cache_lock, callVars, raw, linuxVars, histVars>>

\* Line 181.
SetInitialized(t) ==
    /\ pc[t] = "l181"
    /\ PopulateWrite(t, 2)
    /\ Goto(t, "l178x")
    /\ UNCHANGED <<staticVars, cache_lock, callVars, raw, linuxVars, winVars, histVars>>

\* The with block of line 178 ends normally: the lock is released.
ExitWith(t) ==
    /\ pc[t] = "l178x"
    /\ cache_lock' = 0
    /\ raw' = [raw EXCEPT ![t] = Unset]
    /\ Goto(t, "l182")
    /\ UNCHANGED <<staticVars, dmi_cache, cache_initialized, callVars, linuxVars, winVars,
                   histVars>>

\* Mutant of ExitWithRaise: the failed probe marks the cache as populated.
ExitWithRaiseMarksInitialized(t) ==
    /\ pc[t] = "l178r"
    /\ cache_lock' = 0
    /\ cache_initialized' = TRUE
    /\ escaped' = TRUE
    /\ DropProbeLocals(t)
    /\ include_fallback' = [include_fallback EXCEPT ![t] = FALSE]
    /\ Goto(t, "idle")
    /\ UNCHANGED <<staticVars, dmi_cache, calls, dmi_data, fallback, retval, raw, linuxVars,
                   nProbes, probeOut, ret>>

\* Mutant of ExitWithRaise: the exception leaves the with block with the lock
\* still held.
ExitWithRaiseKeepsLock(t) ==
    /\ pc[t] = "l178r"
    /\ escaped' = TRUE
    /\ DropProbeLocals(t)
    /\ include_fallback' = [include_fallback EXCEPT ![t] = FALSE]
    /\ Goto(t, "idle")
    /\ UNCHANGED <<staticVars, cacheVars, calls, dmi_data, fallback, retval, raw, linuxVars,
                   nProbes, probeOut, ret>>

\* The with block is left by an exception: the lock is released and the exception
\* propagates out of _get_cached_dmi and out of get_dmi_info (no handler).
ExitWithRaise(t) ==
    /\ pc[t] = "l178r"
    /\ cache_lock' = 0
    /\ escaped' = TRUE
    /\ DropProbeLocals(t)
    /\ include_fallback' = [include_fallback EXCEPT ![t] = FALSE]
    /\ Goto(t, "idle")
    /\ UNCHANGED <<staticVars, dmi_cache, cache_initialized, calls, dmi_data, fallback,
                   retval, raw, linuxVars, nProbes, probeOut, ret>>

\* Line 182 and the assignment of line 204.
ReturnCached(t) ==
    /\ pc[t] = "l182"
    /\ dmi_data' = [dmi_data EXCEPT ![t] = dmi_cache]
    /\ Goto(t, "l205")
    /\ UNCHANGED <<staticVars, cacheVars, calls, include_fallback, fallback, retval, raw,
                   linuxVars, winVars, histVars>>

\* Lines 205-207 and 210: the paths that do not read the fallback source return;
\* the path of line 208 enters _get_fallback_identifiers (line 153).
Compose(t) ==
    /\ pc[t] = "l205"
    /\ IF UsesFallback(dmi_data[t], include_fallback[t])
       THEN /\ fallback' = [fallback EXCEPT ![t] = Dict(EmptyMap)]
            /\ Goto(t, "l156")
            /\ UNCHANGED retval
       ELSE /\ retval' = [retval EXCEPT
                             ![t] = get_dmi_info(dmi_data[t], include_fallback[t], EmptyMap)]
            /\ Goto(t, "ret")
            /\ UNCHANGED fallback
    /\ UNCHANGED <<staticVars, cacheVars, calls, include_fallback, dmi_data, raw, linuxVars,
                   winVars, histVars>>

\* Lines 156-161: /etc/machine-id.
FallbackMachineId(t) ==
    /\ pc[t] = "l156"
    /\ \E read \in MachineIdReads :
            fallback' = [fallback EXCEPT ![t] = Dict(MachineId(@.map, read))]
    /\ Goto(t, "l164")
    /\ UNCHANGED <<staticVars, cacheVars, calls, include_fallback, dmi_data, retval, raw,
                   linuxVars, winVars, histVars>>

\* Lines 164-168, and line 209 on the value returned.
FallbackHostname(t) ==
    /\ pc[t] = "l164"
    /\ \E hostname \in Hostnames :
            /\ fallback' = [fallback EXCEPT ![t] = Dict(Hostname(@.map, hostname))]
            /\ retval' = [retval EXCEPT
                             ![t] = get_dmi_info(dmi_data[t], include_fallback[t],
                                                 Hostname(fallback[t].map, hostname))]
    /\ Goto(t, "ret")
    /\ UNCHANGED <<staticVars, cacheVars, calls, include_fallback, dmi_data, raw, linuxVars,
                   winVars, histVars>>

\* get_dmi_info returns to its caller; its locals are gone.
Return(t) ==
    /\ pc[t] = "ret"
    /\ ret' = [ret EXCEPT ![include_fallback[t]] = retval[t]]
    /\ dmi_data' = [dmi_data EXCEPT ![t] = Unset]
    /\ fallback' = [fallback EXCEPT ![t] = Unset]
    /\ retval' = [retval EXCEPT ![t] = Unset]
    /\ include_fallback' = [include_fallback EXCEPT ![t] = FALSE]
    /\ Goto(t, "idle")
    /\ UNCHANGED <<staticVars, cacheVars, calls, raw, linuxVars, winVars, nProbes, probeOut,
                   escaped>>

\* ------------------------------------------------------------ _read_dmi_linux
\* Lines 33-48: the container verdict, the directory test, result = {}.
ReadDmiLinuxEnter(t) ==
    /\ pc[t] = "l33"
    /\ \E dockerenv \in BOOLEAN, containerenv \in BOOLEAN, cgroup \in CgroupReads,
          is_dir \in BOOLEAN :
            IF is_container(dockerenv, containerenv, cgroup) THEN
                ProbeReturns(t, None) /\ UNCHANGED linuxVars
            ELSE IF ~is_dir THEN
                ProbeReturns(t, None) /\ UNCHANGED linuxVars
            ELSE
                /\ result' = [result EXCEPT ![t] = EmptyMap]
                /\ idx' = [idx EXCEPT ![t] = 1]
                /\ Goto(t, "l49")
                /\ UNCHANGED <<raw, probeOut>>
    /\ UNCHANGED <<staticVars, cacheVars, callVars, winVars, nProbes, ret, escaped>>

\* Lines 49-56: one iteration of the loop, reading one file.
ReadDmiLinuxField(t) ==
    /\ pc[t] = "l49"
    /\ idx[t] <= Len(fields)
    /\ \E read \in FileReads :
            result' = [result EXCEPT ![t] = ReadField(@, fields[idx[t]][1], read)]
    /\ idx' = [idx EXCEPT ![t] = @ + 1]
    /\ UNCHANGED <<staticVars, cacheVars, pc, callVars, raw, winVars, histVars>>

\* Line 57, after the last iteration.
ReadDmiLinuxReturn(t) ==
    /\ pc[t] = "l49"
    /\ idx[t] > Len(fields)
    /\ ProbeReturns(t, OrNone(result[t]))
    /\ result' = [result EXCEPT ![t] = EmptyMap]
    /\ idx' = [idx EXCEPT ![t] = 1]
    /\ UNCHANGED <<staticVars, cacheVars, callVars, winVars, nProbes, ret, escaped>>

\* ------------------------------------------------------------ _read_dmi_macos
\* Lines 119-149, for each outcome of the system_profiler run.
ReadDmiMacos(t) ==
    /\ pc[t] = "l121"
    /\ \E run \in MacRuns :
            IF MacRaises(run) THEN ProbeRaises(t) ELSE ProbeReturns(t, read_dmi_macos(run))
    /\ UNCHANGED <<staticVars, cacheVars, callVars, linuxVars, winVars, nProbes, ret, escaped>>

\* ------------------------------------------------------------------ _wmi_worker
IsAlive(t) == wpc[t] \notin {"none", "returned", "killed"}

WGoto(t, line) == wpc' = [wpc EXCEPT ![t] = line]

\* queue.put(msg) in the worker.
QueuePut(t, msg) == queue' = [queue EXCEPT ![t] = Append(@, msg)]

\* Lines 62-63: the imports; ImportError is caught at line 92.
WorkerImport(t) ==
    /\ wpc[t] = "l62"
    /\ \E ok \in BOOLEAN : WGoto(t, IF ok THEN "l64" ELSE "l92")
    /\ UNCHANGED <<staticVars, cacheVars, pc, callVars, raw, linuxVars, wres, queue,
                   qclosed, sigterm, sigkill, spawned, histVars>>

\* Line 64: CoInitialize, outside the inner try.
WorkerCoInitialize(t) ==
    /\ wpc[t] = "l64"
    /\ \E ok \in BOOLEAN : WGoto(t, IF ok THEN "l66" ELSE "l92")
    /\ UNCHANGED <<staticVars, cacheVars, pc, callVars, raw, linuxVars, wres, queue,
                   qclosed, sigterm, sigkill, spawned, histVars>>

\* Lines 66-76: the two queries; an empty table puts None and returns through the
\* finally clause; an exception reaches line 92 through the finally clause.
WorkerQuery(t) ==
    /\ wpc[t] = "l66"
    /\ \E outcome \in {"raise", "empty", "rows"} :
            IF outcome = "raise" THEN WGoto(t, "l91x") /\ UNCHANGED <<wres, queue>>
            ELSE IF outcome = "empty" THEN
                WGoto(t, "l91") /\ QueuePut(t, None) /\ UNCHANGED wres
            ELSE
                /\ WGoto(t, "l78")
                /\ wres' = [wres EXCEPT ![t] = EmptyMap]
                /\ UNCHANGED queue
    /\ UNCHANGED <<staticVars, cacheVars, pc, callVars, raw, linuxVars, qclosed, sigterm,
                   sigkill, spawned, histVars>>

\* Lines 78-79.
WorkerUuid(t) ==
    /\ wpc[t] = "l78"
    /\ \E attr \in Attrs :
            IF ExtractRaises(attr) THEN WGoto(t, "l91x") /\ UNCHANGED wres
            ELSE WGoto(t, "l80") /\ wres' = [wres EXCEPT ![t] = ExtractUuid(@, attr)]
    /\ UNCHANGED <<staticVars, cacheVars, pc, callVars, raw, linuxVars, queue, qclosed,
                   sigterm, sigkill, spawned, histVars>>

\* Lines 80-83.
WorkerIdentifyingNumber(t) ==
    /\ wpc[t] = "l80"
    /\ \E attr \in Attrs :
            IF ExtractRaises(attr) THEN WGoto(t, "l91x") /\ UNCHANGED wres
            ELSE /\ WGoto(t, "l84")
                 /\ wres' = [wres EXCEPT ![t] = ExtractSerial(@, "chassis_serial", attr)]
    /\ UNCHANGED <<staticVars, cacheVars, pc, callVars, raw, linuxVars, queue, qclosed,
                   sigterm, sigkill, spawned, histVars>>

\* Lines 84-87.
WorkerSerialNumber(t) ==
    /\ wpc[t] = "l84"
    /\ \E attr \in Attrs :
            IF ExtractRaises(attr) THEN WGoto(t, "l91x") /\ UNCHANGED wres
            ELSE /\ WGoto(t, "l89")
                 /\ wres' = [wres EXCEPT ![t] = ExtractSerial(@, "bios_serial", attr)]
    /\ UNCHANGED <<staticVars, cacheVars, pc, callVars, raw, linuxVars, queue, qclosed,
                   sigterm, sigkill, spawned, histVars>>

\* Line 89.
WorkerPutResult(t) ==
    /\ wpc[t] = "l89"
    /\ QueuePut(t, OrNone(wres[t]))
    /\ WGoto(t, "l91")
    /\ UNCHANGED <<staticVars, cacheVars, pc, callVars, raw, linuxVars, wres, qclosed,
                   sigterm, sigkill, spawned, histVars>>

\* Lines 90-91: CoUninitialize in the finally clause. With no exception pending
\* (l91) the worker returns unless CoUninitialize raises; with one pending (l91x),
\* or raised here, control reaches the handler of line 92.
WorkerFinally(t) ==
    /\ wpc[t] \in {"l91", "l91x"}
    /\ \E ok \in BOOLEAN : WGoto(t, IF ok /\ wpc[t] = "l91" THEN "returned" ELSE "l92")
    /\ wres' = [wres EXCEPT ![t] = EmptyMap]
    /\ UNCHANGED <<staticVars, cacheVars, pc, callVars, raw, linuxVars, queue, qclosed,
                   sigterm, sigkill, spawned, histVars>>

\* Mutant of HandlerPut: the handler only logs.
HandlerLogsOnly(t) == UNCHANGED queue

\* What the handler of lines 92-94 does with the queue.
HandlerPut(t) == QueuePut(t, None)

\* Lines 92-94: except Exception.
WorkerExcept(t) ==
    /\ wpc[t] = "l92"
    /\ HandlerPut(t)
    /\ WGoto(t, "returned")
    /\ UNCHANGED <<staticVars, cacheVars, pc, callVars, raw, linuxVars, wres, qclosed,
                   sigterm, sigkill, spawned, histVars>>

\* The worker process is ended from outside its code at any point: by the signal
\* of process.terminate(), by a fault in native code, by the operating system.
WorkerDies(t) ==
    /\ IsAlive(t)
    /\ WGoto(t, "killed")
    /\ wres' = [wres EXCEPT ![t] = EmptyMap]
    /\ UNCHANGED <<staticVars, cacheVars, pc, callVars, raw, linuxVars, queue, qclosed,
                   sigterm, sigkill, spawned, histVars>>

\* process.kill() takes effect: a kill cannot be ignored.
WorkerKilled(t) ==
    /\ IsAlive(t)
    /\ sigkill[t]
    /\ WGoto(t, "killed")
    /\ wres' = [wres EXCEPT ![t] = EmptyMap]
    /\ UNCHANGED <<staticVars, cacheVars, pc, callVars, raw, linuxVars, queue, qclosed,
                   sigterm, sigkill, spawned, histVars>>

\* ------------------------------------------- _read_dmi_windows_with_timeout
\* Lines 98-100: a new queue, a new worker process, started.
WinSpawn(t) ==
    /\ pc[t] = "l98"
    /\ queue' = [queue EXCEPT ![t] = << >>]
    /\ qclosed' = [qclosed EXCEPT ![t] = FALSE]
    /\ wpc' = [wpc EXCEPT ![t] = "l62"]
    /\ wres' = [wres EXCEPT ![t] = EmptyMap]
    /\ sigterm' = [sigterm EXCEPT ![t] = FALSE]
    /\ sigkill' = [sigkill EXCEPT ![t] = FALSE]
    /\ spawned' = [spawned EXCEPT ![t] = @ + 1]
    /\ Goto(t, "l101")
    /\ UNCHANGED <<staticVars, cacheVars, callVars, raw, linuxVars, histVars>>

\* Line 101: join(timeout=timeout_sec) returns, the worker ended or the time up.
WinJoin(t) ==
    /\ pc[t] = "l101"
    /\ Goto(t, "l103")
    /\ UNCHANGED <<staticVars, cacheVars, callVars, raw, linuxVars, winVars, histVars>>

\* Line 103.
WinIsAlive(t) ==
    /\ pc[t] = "l103"
    /\ Goto(t, IF IsAlive(t) THEN "l104" ELSE "l112")
    /\ UNCHANGED <<staticVars, cacheVars, callVars, raw, linuxVars, winVars, histVars>>

\* Line 104.
WinTerminate(t) ==
    /\ pc[t] = "l104"
    /\ sigterm' = [sigterm EXCEPT ![t] = TRUE]
    /\ Goto(t, "l105")
    /\ UNCHANGED <<staticVars, cacheVars, callVars, raw, linuxVars, procVars, qclosed,
                   sigkill, spawned, histVars>>

\* Line 105: join(timeout=1) returns.
WinJoinGrace(t) ==
    /\ pc[t] = "l105"
    /\ Goto(t, "l106")
    /\ UNCHANGED <<staticVars, cacheVars, callVars, raw, linuxVars, winVars, histVars>>

\* Mutant of AfterGrace: no forced kill, the parent goes on after the grace period.
AfterGraceNoKill(t) == "l109"

\* The line the parent goes to from the test of line 106.
AfterGrace(t) == IF IsAlive(t) THEN "l107" ELSE "l109"

\* Line 106.
WinIsAliveAfterGrace(t) ==
    /\ pc[t] = "l106"
    /\ Goto(t, AfterGrace(t))
    /\ UNCHANGED <<staticVars, cacheVars, callVars, raw, linuxVars, winVars, histVars>>

\* Line 107.
WinKill(t) ==
    /\ pc[t] = "l107"
    /\ sigkill' = [sigkill EXCEPT ![t] = TRUE]
    /\ Goto(t, "l108")
    /\ UNCHANGED <<staticVars, cacheVars, callVars, raw, linuxVars, procVars, qclosed,
                   sigterm, spawned, histVars>>

\* Mutant of WinJoinKilled: the join after the kill does not wait for the worker.
WinJoinKilledNoWait(t) ==
    /\ pc[t] = "l108"
    /\ Goto(t, "l109")
    /\ UNCHANGED <<staticVars, cacheVars, callVars, raw, linuxVars, winVars, histVars>>

\* Line 108: join() with no timeout returns once the worker has ended.
WinJoinKilled(t) ==
    /\ pc[t] = "l108"
    /\ ~IsAlive(t)
    /\ Goto(t, "l109")
    /\ UNCHANGED <<staticVars, cacheVars, callVars, raw, linuxVars, winVars, histVars>>

\* Lines 109-110.
WinTimeoutReturn(t) ==
    /\ pc[t] = "l109"
    /\ ProbeReturns(t, None)
    /\ UNCHANGED <<staticVars, cacheVars, callVars, linuxVars, winVars, nProbes, ret,
                   escaped>>

\* Lines 112-116: queue.get(timeout=0.5) returns the first message, or raises
\* queue.Empty when there is none; the finally clause closes the queue.
WinGetResult(t) ==
    /\ pc[t] = "l112"
    /\ qclosed' = [qclosed EXCEPT ![t] = TRUE]
    /\ IF queue[t] # << >>
       THEN ProbeReturns(t, Head(queue[t])) /\ queue' = [queue EXCEPT ![t] = Tail(@)]
       ELSE ProbeRaises(t) /\ UNCHANGED queue
    /\ UNCHANGED <<staticVars, cacheVars, callVars, linuxVars, wpc, wres, sigterm, sigkill,
                   spawned, nProbes, ret, escaped>>

\* ------------------------------------------------------------ specification
Next ==
    \E t \in Threads :
        \/ Call(t)
        \/ FastCheck(t)
        \/ Acquire(t)
        \/ DoubleCheck(t)
        \/ GetRawDmi(t)
        \/ StoreCache(t)
        \/ SetInitialized(t)
        \/ ExitWith(t)
        \/ ExitWithRaise(t)
        \/ ReturnCached(t)
        \/ Compose(t)
        \/ FallbackMachineId(t)
        \/ FallbackHostname(t)
        \/ Return(t)
        \/ ReadDmiLinuxEnter(t)
        \/ ReadDmiLinuxField(t)
        \/ ReadDmiLinuxReturn(t)
        \/ ReadDmiMacos(t)
        \/ WinSpawn(t)
        \/ WinJoin(t)
        \/ WinIsAlive(t)
        \/ WinTerminate(t)
        \/ WinJoinGrace(t)
        \/ WinIsAliveAfterGrace(t)
        \/ WinKill(t)
        \/ WinJoinKilled(t)
        \/ WinTimeoutReturn(t)
        \/ WinGetResult(t)
        \/ WorkerImport(t)
        \/ WorkerCoInitialize(t)
        \/ WorkerQuery(t)
        \/ WorkerUuid(t)
        \/ WorkerIdentifyingNumber(t)
        \/ WorkerSerialNumber(t)
        \/ WorkerPutResult(t)
        \/ WorkerFinally(t)
        \/ WorkerExcept(t)
        \/ WorkerDies(t)
        \/ WorkerKilled(t)

Spec == Init /\ [][Next]_vars

\* ------------------------------------------ the functions applied on their own
\* _is_container, _read_dmi_linux and _get_fallback_identifiers read the host and
\* nothing of the process: each is applied to a host drawn from its set.
processVars ==
    <<platform, dmi_cache, cache_initialized, cache_lock, pc, calls, include_fallback,
      raw, dmi_data, fallback, retval, result, idx, wpc, wres, queue, qclosed,
      sigterm, sigkill, spawned, nProbes, probeOut, ret, escaped>>

InitFunctions ==
    /\ platform = "linux"
    /\ InitProcess
    /\ input \in ContainerHosts \cup LinuxHosts \cup FallbackHosts
    /\ output = Unset

\* The function's value on the host as it is now; again tells that the function
\* had been applied before.
Applied(value) == [of |-> input, value |-> value, again |-> output # Unset]

ApplyIsContainer ==
    /\ input.fn = "is_container"
    /\ output' = Applied(is_container(input.dockerenv, input.containerenv, input.cgroup))
    /\ UNCHANGED <<processVars, input>>

ApplyReadDmiLinux ==
    /\ input.fn = "read_dmi_linux"
    /\ output' = Applied(read_dmi_linux(input))
    /\ UNCHANGED <<processVars, input>>

ApplyGetFallbackIdentifiers ==
    /\ input.fn = "get_fallback_identifiers"
    /\ output' = Applied(get_fallback_identifiers(input.machine_id, input.hostname))
    /\ UNCHANGED <<processVars, input>>

\* Between two invocations of _read_dmi_linux the marker file /.dockerenv appears
\* or disappears.
HostChanges ==
    /\ input.fn = "read_dmi_linux"
    /\ output # Unset
    /\ input' = [input EXCEPT !.dockerenv = ~@]
    /\ UNCHANGED <<processVars, output>>

NextFunctions ==
    \/ ApplyIsContainer
    \/ ApplyReadDmiLinux
    \/ ApplyGetFallbackIdentifiers
    \/ HostChanges

SpecFunctions == InitFunctions /\ [][NextFunctions]_vars

\* The parent's steps in the probe keep being taken (a thread that can run does
\* run, and every bounded join returns), and a kill sent to a live worker takes
\* effect. Nothing is assumed of the worker's own steps: it may hang for ever.
ParentStep(t) ==
    \/ WinSpawn(t)
    \/ WinJoin(t)
    \/ WinIsAlive(t)
    \/ WinTerminate(t)
    \/ WinJoinGrace(t)
    \/ WinIsAliveAfterGrace(t)
    \/ WinKill(t)
    \/ WinJoinKilled(t)
    \/ WinTimeoutReturn(t)
    \/ WinGetResult(t)

\* A process whose sys.platform is win32: the steps of the other two probes
\* never occur in it.
InitWin32 == Init /\ platform = "win32"

NextWin32 ==
    \E t \in Threads :
        \/ Call(t)
        \/ FastCheck(t)
        \/ Acquire(t)
        \/ DoubleCheck(t)
        \/ GetRawDmi(t)
        \/ StoreCache(t)
        \/ SetInitialized(t)
        \/ ExitWith(t)
        \/ ExitWithRaise(t)
        \/ ReturnCached(t)
        \/ Compose(t)
        \/ FallbackMachineId(t)
        \/ FallbackHostname(t)
        \/ Return(t)
        \/ ParentStep(t)
        \/ WorkerImport(t)
        \/ WorkerCoInitialize(t)
        \/ WorkerQuery(t)
        \/ WorkerUuid(t)
        \/ WorkerIdentifyingNumber(t)
        \/ WorkerSerialNumber(t)
        \/ WorkerPutResult(t)
        \/ WorkerFinally(t)
        \/ WorkerExcept(t)
        \/ WorkerDies(t)
        \/ WorkerKilled(t)

FairSpecWin32 ==
    /\ InitWin32
    /\ [][NextWin32]_vars
    /\ \A t \in Threads : WF_vars(ParentStep(t)) /\ WF_vars(WorkerKilled(t))

\* ------------------------------------------------------------------ claims
InCall(t) == pc[t] \in {"l205", "l156", "l164", "ret"}

\* C1: the raw probe _get_raw_dmi is invoked at most once in the life of the
\* process, whatever the threads do.
C1_ProbedOnce == nProbes <= 1

\* C2, as stated: a call about to return a value returns the value the last call
\* with the same include_fallback returned.
C2_SameResult ==
    \A t \in Threads :
        (pc[t] = "ret" /\ ret[include_fallback[t]] # Unset)
            => retval[t] = ret[include_fallback[t]]

\* C2, amended: the same, for the calls that do not take the path of line 208
\* (cached value present, or include_fallback false); a call that takes it
\* returns the fallback identifiers as it has just read them.
C2_SameResultUnlessFallback ==
    \A t \in Threads :
        pc[t] = "ret" =>
            IF dmi_data[t] = None /\ include_fallback[t]
            THEN retval[t] = OrNone(fallback[t].map)
            ELSE ret[include_fallback[t]] # Unset => retval[t] = ret[include_fallback[t]]

\* C2 witness: a second call with include_fallback true is about to return the
\* identifier map an earlier such call returned.
C2_Witness ==
    \E t \in Threads :
        /\ pc[t] = "ret"
        /\ include_fallback[t]
        /\ ret[TRUE] # Unset
        /\ retval[t].tag = "dict"
        /\ retval[t] = dmi_data[t]
        /\ retval[t] = ret[TRUE]

\* C3: no exception leaves get_dmi_info.
C3_NoExceptionEscapes == ~escaped

\* C4: at the return of get_dmi_info, a present cached value is returned as it is
\* and the fallback source was not read; an absent one with include_fallback true
\* gives the fallback map, or None when that map is empty; an absent one with
\* include_fallback false gives None and the fallback source was not read.
C4_Composition ==
    \A t \in Threads :
        pc[t] = "ret" =>
            /\ dmi_data[t].tag = "dict" => (retval[t] = dmi_data[t] /\ fallback[t] = Unset)
            /\ (dmi_data[t] = None /\ include_fallback[t]) =>
                    /\ fallback[t].tag = "dict"
                    /\ (DOMAIN fallback[t].map # {} => retval[t] = fallback[t])
                    /\ (DOMAIN fallback[t].map = {} => retval[t] = None)
            /\ (dmi_data[t] = None /\ ~include_fallback[t]) =>
                    (retval[t] = None /\ fallback[t] = Unset)
            /\ dmi_data[t] # Unset

\* C4 witness: no cached data, fallback requested, and the fallback map is empty.
C4_Witness ==
    \E t \in Threads :
        /\ pc[t] = "ret"
        /\ dmi_data[t] = None
        /\ include_fallback[t]
        /\ fallback[t] = Dict(EmptyMap)
        /\ retval[t] = None

\* C5: on the timeout path of the Windows probe the parent has sent terminate
\* before it waits the grace period, kills exactly when the worker is still alive
\* at the test of line 106 and then joins it, returns None with the worker ended
\* and one worker spawned; and a parent that found the worker alive at line 103
\* always gets to that return, whatever the worker does.
C5_TimeoutState ==
    \A t \in Threads :
        /\ pc[t] \in {"l105", "l106", "l107", "l108", "l109"} => sigterm[t]
        /\ sigkill[t] => sigterm[t]
        /\ pc[t] = "l108" => sigkill[t]
        /\ pc[t] = "l109" => (~IsAlive(t) /\ spawned[t] = 1)
        /\ (pc[t] = "l180s" /\ sigterm[t]) =>
                (raw[t] = None /\ ~IsAlive(t) /\ spawned[t] = 1)
        /\ spawned[t] <= 1

C5_TimeoutPath ==
    /\ []C5_TimeoutState
    /\ [][\A t \in Threads :
            (pc[t] = "l106" /\ pc'[t] # "l106") => (pc'[t] = "l107" <=> IsAlive(t))]_vars
    /\ \A t \in Threads : (pc[t] = "l104") ~> (pc[t] = "l180s" /\ raw[t] = None)

\* C5 witness: the parent returns None after a forced kill of the worker.
C5_Witness ==
    \E t \in Threads :
        /\ pc[t] = "l180s"
        /\ sigterm[t]
        /\ sigkill[t]
        /\ wpc[t] = "killed"
        /\ raw[t] = None

\* C6: when the queue holds no message at line 113, the probe returns None.
C6_EmptyQueueGivesNone ==
    [][\A t \in Threads :
        (pc[t] = "l112" /\ queue[t] = << >> /\ pc'[t] # "l112")
            => (pc'[t] = "l180s" /\ raw'[t] = None)]_vars

\* C7: no identifier map a probe produces, the cache holds or get_dmi_info
\* returns has a value that is "", "None" or "To be filled by O.E.M.".
NoSentinel(v) == v.tag = "dict" => \A k \in DOMAIN v.map : v.map[k] \notin SentinelTuple

C7_NoSentinelValue ==
    /\ NoSentinel(dmi_cache)
    /\ \A t \in Threads :
        /\ NoSentinel(raw[t])
        /\ NoSentinel(retval[t])
        /\ \A i \in 1..Len(queue[t]) : NoSentinel(queue[t][i])

\* C8: a worker that has returned from _wmi_worker has put a message on the
\* queue (the parent takes a message only at line 113, closing the queue).
C8_WorkerSignals ==
    \A t \in Threads : (wpc[t] = "returned" /\ ~qclosed[t]) => queue[t] # << >>

\* C8 witness: the worker returned through the handler after CoUninitialize
\* raised, the result already on the queue.
C8_Witness ==
    \E t \in Threads :
        /\ wpc[t] = "returned"
        /\ ~qclosed[t]
        /\ Len(queue[t]) = 2
        /\ queue[t][1].tag = "dict"
        /\ queue[t][2] = None

\* C9: whenever _cache_initialized is true, _dmi_cache holds the value the raw
\* probe returned, and every call that has read the cache at line 182 read it.
C9_PopulatedBeforeObserved ==
    /\ cache_initialized => dmi_cache = probeOut
    /\ \A t \in Threads : InCall(t) => dmi_data[t] = probeOut

\* C9 witness: a thread has read a probed map on the unlocked path while the
\* populating thread is still inside the with block.
C9_Witness ==
    \E t \in Threads, u \in Threads :
        /\ t # u
        /\ pc[t] = "l205"
        /\ dmi_data[t].tag = "dict"
        /\ dmi_data[t] = probeOut
        /\ pc[u] = "l178x"
        /\ cache_lock = u

\* C10: once _cache_initialized is true it stays true and _dmi_cache keeps its
\* value.
C10_PopulatedIsTerminal ==
    [][cache_initialized => (cache_initialized' /\ dmi_cache' = dmi_cache)]_vars

\* C10 witness: the cache is populated and a thread that passed the unlocked test
\* before that holds the lock at the second test.
C10_Witness ==
    \E t \in Threads : cache_initialized /\ pc[t] = "l179" /\ dmi_cache.tag = "dict"

\* Thread t has left _read_dmi_windows_with_timeout, by return or by exception,
\* and its locals are still in view.
WinProbeEnded(t) == platform = "win32" /\ pc[t] \in {"l180s", "l178r"}

\* C11: whenever _read_dmi_windows_with_timeout has returned or raised, its queue
\* has been closed.
C11_QueueClosed == \A t \in Threads : WinProbeEnded(t) => qclosed[t]

\* Thread t is inside _get_raw_dmi.
InProbe(t) ==
    pc[t] \in {"l33", "l49", "l121", "l98", "l101", "l103", "l104", "l105", "l106", "l107",
               "l108", "l109", "l112"}

\* C16: at most one thread at a time is inside _get_raw_dmi, and that thread
\* holds _cache_lock.
C16_OneProber ==
    /\ \A t \in Threads : InProbe(t) => cache_lock = t
    /\ \A t \in Threads, u \in Threads : (InProbe(t) /\ InProbe(u)) => t = u

\* C16 witness: a thread is inside the probe while another waits at line 178.
C16_Witness ==
    \E t \in Threads, u \in Threads :
        /\ t # u
        /\ InProbe(t)
        /\ pc[u] = "l178"
        /\ cache_lock = t

\* C17: when the raw probe has raised, the cache is still unpopulated and holds
\* its initial None; leaving the with block keeps that and frees the lock; and a
\* thread that then finds the cache unpopulated at line 179 runs the probe.
C17_FailedProbeState ==
    \A t \in Threads :
        pc[t] = "l178r" => (~cache_initialized /\ dmi_cache = None /\ cache_lock = t)

C17_FailedProbeLeavesCache ==
    /\ []C17_FailedProbeState
    /\ [][\A t \in Threads :
            (pc[t] = "l178r" /\ pc'[t] # "l178r") =>
                (~cache_initialized' /\ dmi_cache' = None /\ cache_lock' = 0)]_vars
    /\ [][\A t \in Threads :
            (escaped /\ pc[t] = "l179" /\ ~cache_initialized /\ pc'[t] # "l179") =>
                pc'[t] = "l180"]_vars

\* C17 witness: after a failed probe, a later call is running the probe again.
C17_Witness ==
    \E t \in Threads : escaped /\ nProbes = 2 /\ InProbe(t) /\ ~cache_initialized

\* C19: whenever _read_dmi_windows_with_timeout has returned or raised, the
\* worker it spawned is not alive, and it spawned exactly one.
C19_NoOrphan == \A t \in Threads : WinProbeEnded(t) => (~IsAlive(t) /\ spawned[t] = 1)

\* C19 witness: the probe returned after the worker ended within the grace
\* period, with no kill sent.
C19_Witness ==
    \E t \in Threads :
        /\ WinProbeEnded(t)
        /\ sigterm[t]
        /\ ~sigkill[t]
        /\ wpc[t] = "killed"
        /\ spawned[t] = 1

\* The steps of _get_cached_dmi itself (lines 177-182).
CachedStep(t) ==
    \/ FastCheck(t)
    \/ Acquire(t)
    \/ DoubleCheck(t)
    \/ GetRawDmi(t)
    \/ StoreCache(t)
    \/ SetInitialized(t)
    \/ ExitWith(t)
    \/ ExitWithRaise(t)
    \/ ReturnCached(t)

\* A process whose raw probe is one step of the calling thread that returns or
\* raises: sys.platform darwin (system_profiler, which may time out) or a
\* platform with no probe. The steps of the Linux and Windows probes never
\* occur in it.
InitOneStepProbe == Init /\ platform \in {"darwin", "other"}

NextOneStepProbe ==
    \E t \in Threads :
        \/ Call(t)
        \/ CachedStep(t)
        \/ ReadDmiMacos(t)
        \/ Compose(t)
        \/ FallbackMachineId(t)
        \/ FallbackHostname(t)
        \/ Return(t)

\* A fair scheduler and a probe that terminates: a thread that can take a step of
\* _get_cached_dmi or of the probe does take it. Calls are not forced.
FairSpecOneStepProbe ==
    /\ InitOneStepProbe
    /\ [][NextOneStepProbe]_vars
    /\ \A t \in Threads : WF_vars(CachedStep(t) \/ ReadDmiMacos(t))

\* Thread t is inside _get_cached_dmi.
InCached(t) ==
    \/ pc[t] \in {"l177", "l178", "l179", "l180", "l180s", "l181", "l178x", "l178r", "l182"}
    \/ InProbe(t)

\* C18: under a fair scheduler and a terminating probe, every thread inside
\* _get_cached_dmi, a thread waiting for _cache_lock at line 178 included,
\* eventually returns from it (line 205 follows) or leaves it by an exception.
C18_CallerReturns ==
    \A t \in Threads : InCached(t) ~> (pc[t] \in {"l205", "idle"})

\* C18 witness: a thread has got the lock after the probe of an earlier holder
\* raised, while another thread is past _get_cached_dmi.
C18_Witness ==
    \E t \in Threads, u \in Threads :
        /\ t # u
        /\ escaped
        /\ ~cache_initialized
        /\ pc[t] = "l179"
        /\ cache_lock = t
        /\ pc[u] = "idle"
        /\ calls = MaxCalls

\* The function fn has been applied.
AppliedFn(fn) == output # Unset /\ output.of.fn = fn

\* C12: whenever _read_dmi_linux is invoked on a host on which the verdict of
\* _is_container() is true, it returns None and has read no DMI file, whatever
\* the files hold; the verdict is that of the host at this invocation.
C12_ContainerSuppresses ==
    (AppliedFn("read_dmi_linux")
        /\ is_container(output.of.dockerenv, output.of.containerenv, output.of.cgroup))
    => (output.value.ret = None /\ output.value.opened = << >>)

\* C12 witness: a second invocation, on a host with /.dockerenv whose DMI
\* directory holds a valid value in every file, returned None with no file read.
C12_Witness ==
    /\ AppliedFn("read_dmi_linux")
    /\ output.again
    /\ output.of = input
    /\ input.dockerenv /\ ~input.containerenv /\ input.cgroup = ReadOk(<<"0", ":", ":", "/">>)
    /\ input.is_dir
    /\ \A f \in DOMAIN input.files : input.files[f].ok /\ Strip(input.files[f].text) = StrSerial
    /\ output.value.ret = None
    /\ output.value.opened = << >>

\* The positions in fields whose file was read and whose trimmed text is neither
\* empty nor a sentinel.
Qualifying(files) ==
    {i \in 1..Len(fields) :
        /\ files[fields[i][2]].ok
        /\ Strip(files[fields[i][2]].text) \notin {StrEmpty, StrNone, StrOEM}}

\* C13: outside a container and with the DMI directory present, _read_dmi_linux
\* returns the map of exactly the qualifying keys, each to its trimmed text,
\* and None when no key qualifies.
C13_FieldsIndependent ==
    (AppliedFn("read_dmi_linux")
        /\ ~is_container(output.of.dockerenv, output.of.containerenv, output.of.cgroup)
        /\ output.of.is_dir)
    => LET files == output.of.files
           q == Qualifying(files)
           r == output.value.ret
       IN IF q = {} THEN r = None
          ELSE /\ r.tag = "dict"
               /\ DOMAIN r.map = {fields[i][1] : i \in q}
               /\ \A i \in q : r.map[fields[i][1]] = Strip(files[fields[i][2]].text)

\* C13 witness: the first and the last file cannot be read, a file between them
\* holds a sentinel, and the two other keys are returned.
C13_Witness ==
    /\ AppliedFn("read_dmi_linux")
    /\ ~is_container(output.of.dockerenv, output.of.containerenv, output.of.cgroup)
    /\ output.of.is_dir
    /\ ~output.of.files["product_uuid"].ok
    /\ ~output.of.files["sys_vendor"].ok
    /\ Strip(output.of.files["chassis_serial"].text) = StrOEM
    /\ output.value.ret.tag = "dict"
    /\ DOMAIN output.value.ret.map = {"board_serial", "product_name"}

\* C14: _is_container() is true when /.dockerenv or /run/.containerenv exists,
\* whatever reading /proc/self/cgroup gives; otherwise it is true exactly when
\* the cgroup file was read and its text contains a runtime marker.
C14_ContainerVerdict ==
    AppliedFn("is_container") =>
        LET h == output.of
        IN /\ output.value \in BOOLEAN
           /\ (h.dockerenv \/ h.containerenv) => output.value
           /\ ~(h.dockerenv \/ h.containerenv) =>
                (output.value <=>
                    (h.cgroup.ok /\ \E x \in RuntimeMarkers : Contains(h.cgroup.text, x)))

\* C14 witness: /.dockerenv exists, the cgroup file cannot be read, and the
\* verdict is true.
C14_Witness ==
    /\ AppliedFn("is_container")
    /\ output.of.dockerenv
    /\ ~output.of.containerenv
    /\ output.of.cgroup = Unreadable
    /\ output.value = TRUE

\* C15: _get_fallback_identifiers returns a map over machine_id and hostname
\* only; machine_id is in it exactly when /etc/machine-id was read and its
\* trimmed text is neither empty nor "unavailable"; hostname is in it exactly
\* when the hostname is none of "", "None", "localhost"; each whatever the other.
C15_FallbackMap ==
    AppliedFn("get_fallback_identifiers") =>
        LET h == output.of
            m == output.value
            mid == Strip(h.machine_id.text)
        IN /\ DOMAIN m \subseteq {"machine_id", "hostname"}
           /\ ("machine_id" \in DOMAIN m) <=>
                (h.machine_id.ok /\ mid # StrEmpty /\ mid # StrUnavailable)
           /\ ("machine_id" \in DOMAIN m) => m["machine_id"] = mid
           /\ ("hostname" \in DOMAIN m) <=> (h.hostname \notin {StrEmpty, StrNone, StrLocalhost})
           /\ ("hostname" \in DOMAIN m) => m["hostname"] = h.hostname

\* C15 witness: the machine id is accepted while the hostname is localhost, so
\* the map holds machine_id alone.
C15_Witness ==
    /\ AppliedFn("get_fallback_identifiers")
    /\ output.of.hostname = StrLocalhost
    /\ output.of.machine_id.ok
    /\ DOMAIN output.value = {"machine_id"}
    /\ output.value["machine_id"] = StrSerial
====
